---- MODULE Spec2Model ----
(***************************************************************************)
(* Model of dca-bot-go: the configuration layer (ParseDCAPayload,          *)
(* ToUnified, populateUnifiedCredentials, ParseUnifiedV2) and the          *)
(* handleRequest entry point that drives it.                               *)
(*                                                                         *)
(* Go strings are modelled as sequences of one-character strings, so that  *)
(* strings.ToLower, strings.ToUpper, strings.TrimSpace and                 *)
(* decimal.NewFromString are computed character by character.              *)
(***************************************************************************)
EXTENDS Integers, Sequences, FiniteSets, TLC

\* Longest generated amount string (quoteAmount) fed to the parsers.
MaxAmountLen == 2

-----------------------------------------------------------------------------
(* Strings                                                                 *)

UpperLetters == <<"A","B","C","D","E","F","G","H","I","J","K","L","M",
                  "N","O","P","Q","R","S","T","U","V","W","X","Y","Z">>

LowerLetters == <<"a","b","c","d","e","f","g","h","i","j","k","l","m",
                  "n","o","p","q","r","s","t","u","v","w","x","y","z">>

DigitChars == <<"0","1","2","3","4","5","6","7","8","9">>

IndexIn(c, seq) == IF \E i \in DOMAIN seq : seq[i] = c
                   THEN CHOOSE i \in DOMAIN seq : seq[i] = c
                   ELSE 0

ToLowerChar(c) == IF IndexIn(c, UpperLetters) # 0
                  THEN LowerLetters[IndexIn(c, UpperLetters)] ELSE c

ToUpperChar(c) == IF IndexIn(c, LowerLetters) # 0
                  THEN UpperLetters[IndexIn(c, LowerLetters)] ELSE c

\* strings.ToLower
ToLower(s) == [i \in DOMAIN s |-> ToLowerChar(s[i])]

\* strings.ToUpper
ToUpper(s) == [i \in DOMAIN s |-> ToUpperChar(s[i])]

IsSpace(c) == c \in {" ", "\t", "\n", "\r"}

\* strings.TrimSpace: drop leading and trailing white space
TrimSpace(s) ==
    LET keep == {i \in DOMAIN s : ~IsSpace(s[i])}
    IN  IF keep = {} THEN <<>>
        ELSE LET lo == CHOOSE i \in keep : \A j \in keep : i <= j
                 hi == CHOOSE i \in keep : \A j \in keep : j <= i
             IN  SubSeq(s, lo, hi)

-----------------------------------------------------------------------------
(* Decimals: github.com/shopspring/decimal, as used by the config package  *)

IsDigit(c) == IndexIn(c, DigitChars) # 0

DigitVal(c) == IndexIn(c, DigitChars) - 1

RECURSIVE DigitsValue(_)
DigitsValue(s) == IF s = <<>> THEN 0
                  ELSE DigitsValue(SubSeq(s, 1, Len(s) - 1)) * 10 + DigitVal(s[Len(s)])

\* strconv.ParseInt(s, 10, _): optional sign, then at least one digit
ParseInt(s) ==
    LET signed == Len(s) > 0 /\ s[1] \in {"+", "-"}
        digits == IF signed THEN SubSeq(s, 2, Len(s)) ELSE s
        okDigits == digits # <<>> /\ \A i \in DOMAIN digits : IsDigit(digits[i])
    IN  IF ~okDigits THEN [ok |-> FALSE, n |-> 0]
        ELSE [ok |-> TRUE,
              n  |-> IF signed /\ s[1] = "-" THEN 0 - DigitsValue(digits)
                     ELSE DigitsValue(digits)]

DecimalZero == [value |-> 0, exp |-> 0]

\* decimal.NewFromString: [sign] digits with at most one '.', optional
\* exponent after 'e' or 'E'; the result is value * 10^exp.
NewFromString(str) ==
    LET eSet   == {i \in DOMAIN str : str[i] \in {"e", "E"}}
        eIndex == IF eSet = {} THEN 0 ELSE CHOOSE i \in eSet : \A j \in eSet : i <= j
        expPart == IF eIndex = 0 THEN [ok |-> TRUE, n |-> 0]
                   ELSE ParseInt(SubSeq(str, eIndex + 1, Len(str)))
        mant   == IF eIndex = 0 THEN str ELSE SubSeq(str, 1, eIndex - 1)
        dots   == {i \in DOMAIN mant : mant[i] = "."}
        pIndex == IF dots = {} THEN 0 ELSE CHOOSE i \in dots : TRUE
        intString == IF dots = {} THEN mant
                     ELSE SubSeq(mant, 1, pIndex - 1) \o SubSeq(mant, pIndex + 1, Len(mant))
        fracLen == IF dots = {} THEN 0 ELSE Len(mant) - pIndex
        parsed == ParseInt(intString)
    IN  IF ~expPart.ok THEN [ok |-> FALSE, d |-> DecimalZero]
        ELSE IF Cardinality(dots) > 1 THEN [ok |-> FALSE, d |-> DecimalZero]
        ELSE IF ~parsed.ok THEN [ok |-> FALSE, d |-> DecimalZero]
        ELSE [ok |-> TRUE, d |-> [value |-> parsed.n, exp |-> expPart.n - fracLen]]

IsPositiveOrZero(d) == d.value >= 0

\* Decimal.IsPositive / sign tests
IsPositive(d) == d.value > 0

IsNegative(d) == d.value < 0

RECURSIVE Pow10(_)
Pow10(n) == IF n <= 0 THEN 1 ELSE 10 * Pow10(n - 1)

\* Decimal.Equal: numeric equality of value * 10^exp
DecEqual(a, b) ==
    LET m == IF a.exp < b.exp THEN a.exp ELSE b.exp
    IN  a.value * Pow10(a.exp - m) = b.value * Pow10(b.exp - m)

-----------------------------------------------------------------------------
(* String literals that occur in the code or in the inputs                 *)

S_empty == <<>>

S_v2 == <<"v","2">>

S_V2 == <<"V","2">>

S_v1 == <<"v","1">>

S_market == <<"m","a","r","k","e","t">>

S_limit == <<"l","i","m","i","t">>

S_binance == <<"b","i","n","a","n","c","e">>

S_Binance == <<"B","i","n","a","n","c","e">>

S_okx == <<"o","k","x">>

S_OKX == <<"O","K","X">>

S_kraken == <<"k","r","a","k","e","n">>

S_ssm == <<"s","s","m">>

S_inline == <<"i","n","l","i","n","e">>

S_env == <<"e","n","v">>

S_vault == <<"v","a","u","l","t">>

S_btc_usdt == <<"b","t","c","-","u","s","d","t">>

S_BTC_USDT == <<"B","T","C","-","U","S","D","T">>

S_btc == <<"b","t","c">>

S_usdt == <<"u","s","d","t">>

S_pathA == <<"/","a">>

S_pathB == <<"/","b">>

S_pathC == <<"/","c">>

S_k == <<"k">>

S_s == <<"s">>

S_p == <<"p">>

S_chat == <<"4","2">>

S_tok == <<"/","t">>

-----------------------------------------------------------------------------
(* JSON values and encoding/json.Unmarshal                                 *)

\* A JSON member as the decoder sees it: absent, a string, or a value of
\* another JSON type (a number).
Absent == [t |-> "absent", v |-> <<>>]

Str(s) == [t |-> "str", v |-> s]

Num == [t |-> "num", v |-> <<>>]

\* Keys looked up in the map[string]interface{} configuration bags
BagKeys == {"apiKeyPath", "apiSecretPath", "passphrasePath",
            "apiKey", "apiSecret", "passphrase", "chatId", "botTokenPath"}

\* A nil or empty map: every lookup misses
EmptyBag == [k \in BagKeys |-> Absent]

\* cfg[key].(string): the value and the ok flag of the type assertion
StringField(cfg, key) == IF cfg[key].t = "str" THEN cfg[key].v ELSE <<>>

\* Decoding a JSON member into a Go string field: an absent member leaves
\* the zero value, a non-string member is an UnmarshalTypeError.
DecodeString(jv) == IF jv.t = "str" THEN jv.v ELSE <<>>

NestedStringMembers(e) ==
    {e.version, e.name, e.credType, e.symbol, e.quoteAmount,
     e.balanceThreshold, e.orderType}
    \cup (IF e.telegram = <<>> THEN {} ELSE {e.telegram[1].type})

\* json.Unmarshal(raw, &payload) for DCAPayload
UnmarshalDCAPayload(e) ==
    IF ~e.syntaxOK \/ \E jv \in NestedStringMembers(e) : jv.t = "num"
    THEN [ok |-> FALSE, payload |-> <<>>]
    ELSE [ok |-> TRUE,
          payload |->
           <<[Version |-> DecodeString(e.version),
             Exchange |-> [Name |-> DecodeString(e.name),
                           Credentials |-> [Type |-> DecodeString(e.credType),
                                            Config |-> e.credConfig]],
             Strategy |-> [Symbol |-> DecodeString(e.symbol),
                           QuoteAmount |-> DecodeString(e.quoteAmount),
                           BalanceThreshold |-> DecodeString(e.balanceThreshold),
                           OrderType |-> DecodeString(e.orderType)],
             Notifications |->
                [Telegram |-> IF e.telegram = <<>> THEN <<>>
                              ELSE <<[Type |-> DecodeString(e.telegram[1].type),
                                      Config |-> e.telegram[1].config]>>],
             Flags |-> [DryRun |-> e.dryRun]]>>]

-----------------------------------------------------------------------------
(* ParseDCAPayload                                                         *)

ErrNil == "nil"

ErrInvalidJSON == "invalid JSON"

ErrVersion == "version must be \"v2\""

ErrExchangeName == "exchange name is required"

ErrSymbol == "strategy symbol is required"

ErrQuoteAmountRequired == "strategy quoteAmount is required"

ErrInvalidQuoteAmount == "invalid quoteAmount"

ErrInvalidBalanceThreshold == "invalid balanceThreshold"

VersionSupportedCaseSensitive(p) == p.Version = S_v2

\* strings.ToLower(payload.Version) != "v2" rejects
VersionSupported(p) == ToLower(p.Version) = S_v2

RequiredFieldsSymbolFirst(p) ==
    IF p.Strategy.Symbol = <<>> THEN ErrSymbol
    ELSE IF p.Exchange.Name = <<>> THEN ErrExchangeName
    ELSE IF p.Strategy.QuoteAmount = <<>> THEN ErrQuoteAmountRequired
    ELSE ErrNil

\* exchange name, strategy symbol, strategy quoteAmount must be non-empty
RequiredFields(p) ==
    IF p.Exchange.Name = <<>> THEN ErrExchangeName
    ELSE IF p.Strategy.Symbol = <<>> THEN ErrSymbol
    ELSE IF p.Strategy.QuoteAmount = <<>> THEN ErrQuoteAmountRequired
    ELSE ErrNil

AmountsValidThresholdAlways(p) ==
    IF ~NewFromString(p.Strategy.QuoteAmount).ok THEN ErrInvalidQuoteAmount
    ELSE IF ~NewFromString(p.Strategy.BalanceThreshold).ok
         THEN ErrInvalidBalanceThreshold
    ELSE ErrNil

AmountsValidQuoteUnchecked(p) ==
    IF p.Strategy.BalanceThreshold # <<>>
       /\ ~NewFromString(p.Strategy.BalanceThreshold).ok
    THEN ErrInvalidBalanceThreshold
    ELSE ErrNil

AmountsValidThresholdUnchecked(p) ==
    IF ~NewFromString(p.Strategy.QuoteAmount).ok THEN ErrInvalidQuoteAmount
    ELSE ErrNil

\* quoteAmount must be a decimal; balanceThreshold too when provided
AmountsValid(p) ==
    IF ~NewFromString(p.Strategy.QuoteAmount).ok THEN ErrInvalidQuoteAmount
    ELSE IF p.Strategy.BalanceThreshold # <<>>
            /\ ~NewFromString(p.Strategy.BalanceThreshold).ok
         THEN ErrInvalidBalanceThreshold
    ELSE ErrNil

DefaultOrderTypeMissing(p) == p

\* Set default order type
DefaultOrderType(p) ==
    IF p.Strategy.OrderType = <<>>
    THEN [p EXCEPT !.Strategy.OrderType = S_market]
    ELSE p

ParseDCAPayloadAmountsFirst(raw) ==
    LET u == UnmarshalDCAPayload(raw)
        p == u.payload[1]
    IN  IF ~u.ok THEN [payload |-> <<>>, err |-> ErrInvalidJSON]
        ELSE IF ~VersionSupported(p) THEN [payload |-> <<>>, err |-> ErrVersion]
        ELSE IF AmountsValid(p) # ErrNil
             THEN [payload |-> <<>>, err |-> AmountsValid(p)]
        ELSE IF RequiredFields(p) # ErrNil
             THEN [payload |-> <<>>, err |-> RequiredFields(p)]
        ELSE [payload |-> <<DefaultOrderType(p)>>, err |-> ErrNil]

ParseDCAPayload(raw) ==
    LET u == UnmarshalDCAPayload(raw)
        p == u.payload[1]
    IN  IF ~u.ok THEN [payload |-> <<>>, err |-> ErrInvalidJSON]
        ELSE IF ~VersionSupported(p) THEN [payload |-> <<>>, err |-> ErrVersion]
        ELSE IF RequiredFields(p) # ErrNil
             THEN [payload |-> <<>>, err |-> RequiredFields(p)]
        ELSE IF AmountsValid(p) # ErrNil
             THEN [payload |-> <<>>, err |-> AmountsValid(p)]
        ELSE [payload |-> <<DefaultOrderType(p)>>, err |-> ErrNil]

-----------------------------------------------------------------------------
(* ToUnified and populateUnifiedCredentials                                *)

\* Unified{}: the zero value returned next to an error
ZeroUnified ==
    [Exchange |-> <<>>, Symbol |-> <<>>,
     QuoteAmount |-> DecimalZero, BalanceThreshold |-> DecimalZero,
     DryRun |-> FALSE,
     OKX |-> <<>>, OKXInline |-> <<>>, Binance |-> <<>>, Telegram |-> <<>>]

BinanceCredentialsAnyKind(p) ==
    <<[APIKeyPath    |-> StringField(p.Exchange.Credentials.Config, "apiKeyPath"),
       APISecretPath |-> StringField(p.Exchange.Credentials.Config, "apiSecretPath")]>>

\* case "binance": the record is allocated, its paths are copied for "ssm"
BinanceCredentials(p) ==
    IF p.Exchange.Credentials.Type = S_ssm
    THEN <<[APIKeyPath    |-> StringField(p.Exchange.Credentials.Config, "apiKeyPath"),
            APISecretPath |-> StringField(p.Exchange.Credentials.Config, "apiSecretPath")]>>
    ELSE <<[APIKeyPath |-> <<>>, APISecretPath |-> <<>>]>>

OKXCredentialsNoneForInline(p) ==
    IF p.Exchange.Credentials.Type = S_ssm
    THEN <<[APIKeyPath     |-> StringField(p.Exchange.Credentials.Config, "apiKeyPath"),
            APISecretPath  |-> StringField(p.Exchange.Credentials.Config, "apiSecretPath"),
            PassphrasePath |-> StringField(p.Exchange.Credentials.Config, "passphrasePath")]>>
    ELSE <<>>

\* case "okx": the SSM-shaped record is allocated, its paths are copied for "ssm"
OKXCredentials(p) ==
    IF p.Exchange.Credentials.Type = S_ssm
    THEN <<[APIKeyPath     |-> StringField(p.Exchange.Credentials.Config, "apiKeyPath"),
            APISecretPath  |-> StringField(p.Exchange.Credentials.Config, "apiSecretPath"),
            PassphrasePath |-> StringField(p.Exchange.Credentials.Config, "passphrasePath")]>>
    ELSE <<[APIKeyPath |-> <<>>, APISecretPath |-> <<>>, PassphrasePath |-> <<>>]>>

\* case "okx", credential type "inline": the inline record
OKXInlineCredentials(p) ==
    IF p.Exchange.Credentials.Type = S_inline
    THEN <<[APIKey     |-> StringField(p.Exchange.Credentials.Config, "apiKey"),
            APISecret  |-> StringField(p.Exchange.Credentials.Config, "apiSecret"),
            Passphrase |-> StringField(p.Exchange.Credentials.Config, "passphrase")]>>
    ELSE <<>>

\* switch strings.ToLower(p.Exchange.Name)
ExchangeCase(p) == ToLower(p.Exchange.Name)

CredentialsErrorOnUnknownKind(p) ==
    IF p.Exchange.Credentials.Type \in {S_ssm, S_inline, S_env}
    THEN ErrNil ELSE "unsupported credential type"

\* populateUnifiedCredentials has the single exit "return nil"
CredentialsError(p) == ErrNil

PopulateDefaultsToBinance(p, unified) ==
    IF ExchangeCase(p) = S_okx
    THEN [unified EXCEPT !.OKX = OKXCredentials(p),
                         !.OKXInline = OKXInlineCredentials(p)]
    ELSE [unified EXCEPT !.Binance = BinanceCredentials(p)]

populateUnifiedCredentials(p, unified) ==
    IF ExchangeCase(p) = S_binance
    THEN [unified EXCEPT !.Binance = BinanceCredentials(p)]
    ELSE IF ExchangeCase(p) = S_okx
    THEN [unified EXCEPT !.OKX = OKXCredentials(p),
                         !.OKXInline = OKXInlineCredentials(p)]
    ELSE unified

TelegramRecordTokenAnyKind(p) ==
    IF p.Notifications.Telegram = <<>> THEN <<>>
    ELSE LET tg == p.Notifications.Telegram[1]
         IN  <<[BotTokenPath |-> StringField(tg.Config, "botTokenPath"),
                ChatID |-> StringField(tg.Config, "chatId"),
                Sink   |-> <<>>]>>

\* Handle telegram notifications
TelegramRecord(p) ==
    IF p.Notifications.Telegram = <<>> THEN <<>>
    ELSE LET tg == p.Notifications.Telegram[1]
         IN  <<[BotTokenPath |-> IF tg.Type = S_ssm
                                 THEN StringField(tg.Config, "botTokenPath")
                                 ELSE <<>>,
                ChatID |-> StringField(tg.Config, "chatId"),
                Sink   |-> <<>>]>>

ToUnified(p) ==
    LET qa == NewFromString(p.Strategy.QuoteAmount)
        bt == IF p.Strategy.BalanceThreshold # <<>>
              THEN NewFromString(p.Strategy.BalanceThreshold)
              ELSE [ok |-> TRUE, d |-> DecimalZero]
        unified == [ZeroUnified EXCEPT
                       !.Exchange = ToLower(p.Exchange.Name),
                       !.Symbol = ToUpper(p.Strategy.Symbol),
                       !.QuoteAmount = qa.d,
                       !.BalanceThreshold = bt.d,
                       !.DryRun = p.Flags.DryRun]
    IN  IF ~qa.ok THEN [unified |-> ZeroUnified, err |-> ErrInvalidQuoteAmount]
        ELSE IF ~bt.ok
             THEN [unified |-> ZeroUnified, err |-> ErrInvalidBalanceThreshold]
        ELSE IF CredentialsError(p) # ErrNil
             THEN [unified |-> ZeroUnified, err |-> CredentialsError(p)]
        ELSE [unified |-> [populateUnifiedCredentials(p, unified)
                             EXCEPT !.Telegram = TelegramRecord(p)],
              err |-> ErrNil]

-----------------------------------------------------------------------------
(* ParseUnifiedV2: the legacy flat payload                                 *)

ErrExchangeRequired == "exchange is required"

ErrSymbolRequired == "dca.symbol or (dca.targetAsset+orderCurrency) required"

ErrLegacyQuoteAmount == "dca.quoteAmount invalid"

ErrLegacyBalanceThreshold == "dca.balanceThreshold invalid"

LegacyStringMembers(e) ==
    {e.version, e.exchange, e.symbol, e.targetAsset, e.orderCurrency,
     e.quoteAmount, e.balanceThreshold}

\* json.Unmarshal(raw, &v2) for PayloadV2
UnmarshalPayloadV2(e) ==
    IF ~e.syntaxOK \/ \E jv \in LegacyStringMembers(e) : jv.t = "num"
    THEN [ok |-> FALSE, v2 |-> <<>>]
    ELSE [ok |-> TRUE,
          v2 |-> <<[Version |-> DecodeString(e.version),
                  Exchange |-> DecodeString(e.exchange),
                  DCA |-> [Symbol |-> DecodeString(e.symbol),
                           TargetAsset |-> DecodeString(e.targetAsset),
                           OrderCurrency |-> DecodeString(e.orderCurrency),
                           QuoteAmount |-> DecodeString(e.quoteAmount),
                           BalanceThreshold |-> DecodeString(e.balanceThreshold)],
                  Credentials |-> [OKX |-> e.okx, Binance |-> e.binance],
                  Notifications |-> [Telegram |-> e.telegram],
                  Flags |-> [DryRun |-> e.dryRun]]>>]

LegacySymbolNotUppercased(v2) ==
    LET symbol == ToUpper(TrimSpace(v2.DCA.Symbol))
    IN  IF symbol # <<>> THEN [ok |-> TRUE, symbol |-> symbol]
        ELSE IF v2.DCA.TargetAsset = <<>> \/ v2.DCA.OrderCurrency = <<>>
             THEN [ok |-> FALSE, symbol |-> <<>>]
        ELSE [ok |-> TRUE,
              symbol |-> v2.DCA.TargetAsset \o <<"-">> \o v2.DCA.OrderCurrency]

\* symbol := upper(trim(dca.symbol)), else upper(targetAsset)-upper(orderCurrency)
LegacySymbol(v2) ==
    LET symbol == ToUpper(TrimSpace(v2.DCA.Symbol))
    IN  IF symbol # <<>> THEN [ok |-> TRUE, symbol |-> symbol]
        ELSE IF v2.DCA.TargetAsset = <<>> \/ v2.DCA.OrderCurrency = <<>>
             THEN [ok |-> FALSE, symbol |-> <<>>]
        ELSE [ok |-> TRUE,
              symbol |-> ToUpper(v2.DCA.TargetAsset) \o <<"-">>
                         \o ToUpper(v2.DCA.OrderCurrency)]

LegacyOKXOnlyForOKX(v2) ==
    IF ToLower(TrimSpace(v2.Exchange)) # S_okx \/ v2.Credentials.OKX = <<>> THEN <<>>
    ELSE <<[APIKeyPath     |-> v2.Credentials.OKX[1].APIKeyPath,
            APISecretPath  |-> v2.Credentials.OKX[1].APISecretPath,
            PassphrasePath |-> v2.Credentials.OKX[1].PassphrasePath]>>

\* if v2.Credentials.OKX != nil: copy the three paths
LegacyOKX(v2) ==
    IF v2.Credentials.OKX = <<>> THEN <<>>
    ELSE <<[APIKeyPath     |-> v2.Credentials.OKX[1].APIKeyPath,
            APISecretPath  |-> v2.Credentials.OKX[1].APISecretPath,
            PassphrasePath |-> v2.Credentials.OKX[1].PassphrasePath]>>

\* if v2.Credentials.OKX.Inline != nil: copy the inline secrets
LegacyOKXInline(v2) ==
    IF v2.Credentials.OKX = <<>> THEN <<>>
    ELSE IF v2.Credentials.OKX[1].Inline = <<>> THEN <<>>
    ELSE <<[APIKey     |-> v2.Credentials.OKX[1].Inline[1].APIKey,
            APISecret  |-> v2.Credentials.OKX[1].Inline[1].APISecret,
            Passphrase |-> v2.Credentials.OKX[1].Inline[1].Passphrase]>>

\* if v2.Credentials.Binance != nil: copy the two paths
LegacyBinance(v2) ==
    IF v2.Credentials.Binance = <<>> THEN <<>>
    ELSE <<[APIKeyPath    |-> v2.Credentials.Binance[1].APIKeyPath,
            APISecretPath |-> v2.Credentials.Binance[1].APISecretPath]>>

\* if v2.Notifications.Telegram != nil: copy path, chat id and sink
LegacyTelegram(v2) ==
    IF v2.Notifications.Telegram = <<>> THEN <<>>
    ELSE <<[BotTokenPath |-> v2.Notifications.Telegram[1].BotTokenPath,
            ChatID |-> v2.Notifications.Telegram[1].ChatID,
            Sink   |-> ToLower(TrimSpace(v2.Notifications.Telegram[1].Sink))]>>

ParseUnifiedV2(raw) ==
    LET u  == UnmarshalPayloadV2(raw)
        v2 == u.v2[1]
        ex == ToLower(TrimSpace(v2.Exchange))
        sym == LegacySymbol(v2)
        qa == NewFromString(v2.DCA.QuoteAmount)
        s  == TrimSpace(v2.DCA.BalanceThreshold)
        bt == IF s # <<>> THEN NewFromString(s) ELSE [ok |-> TRUE, d |-> DecimalZero]
    IN  IF ~u.ok THEN [unified |-> ZeroUnified, err |-> ErrInvalidJSON]
        ELSE IF ToLower(v2.Version) # S_v2
             THEN [unified |-> ZeroUnified, err |-> ErrVersion]
        ELSE IF ex = <<>> THEN [unified |-> ZeroUnified, err |-> ErrExchangeRequired]
        ELSE IF ~sym.ok THEN [unified |-> ZeroUnified, err |-> ErrSymbolRequired]
        ELSE IF ~qa.ok \/ ~IsPositive(qa.d)
             THEN [unified |-> ZeroUnified, err |-> ErrLegacyQuoteAmount]
        ELSE IF ~bt.ok
             THEN [unified |-> ZeroUnified, err |-> ErrLegacyBalanceThreshold]
        ELSE [unified |-> [ZeroUnified EXCEPT
                              !.Exchange = ex,
                              !.Symbol = sym.symbol,
                              !.QuoteAmount = qa.d,
                              !.BalanceThreshold = bt.d,
                              !.DryRun = v2.Flags.DryRun,
                              !.OKX = LegacyOKX(v2),
                              !.OKXInline = LegacyOKXInline(v2),
                              !.Binance = LegacyBinance(v2),
                              !.Telegram = LegacyTelegram(v2)],
              err |-> ErrNil]

-----------------------------------------------------------------------------
(* Package exchange: NewExchange and MockExchange                          *)

ErrUnsupportedExchange == "unsupported exchange"

ErrBinanceNotImplemented == "Binance exchange not implemented yet"

ErrOKXNotImplemented == "OKX exchange not implemented yet"

\* NewMockExchange: &MockExchange{}
NewMockExchange == [exchange |-> "mock", ctor |-> "NewMockExchange", err |-> ErrNil]

\* NewBinanceExchange (placeholder): nil and an error
NewBinanceExchange(cfg) ==
    [exchange |-> "nil", ctor |-> "NewBinanceExchange", err |-> ErrBinanceNotImplemented]

\* NewOKXExchange (placeholder): nil and an error
NewOKXExchange(cfg) ==
    [exchange |-> "nil", ctor |-> "NewOKXExchange", err |-> ErrOKXNotImplemented]

NewExchangeNameFirst(cfg) ==
    IF cfg.Exchange.Name = S_binance THEN NewBinanceExchange(cfg)
    ELSE IF cfg.Exchange.Name = S_okx THEN NewOKXExchange(cfg)
    ELSE IF cfg.Flags.DryRun THEN NewMockExchange
    ELSE [exchange |-> "nil", ctor |-> "none", err |-> ErrUnsupportedExchange]

\* NewExchange: the mock for dry run, else a switch on cfg.Exchange.Name
NewExchange(cfg) ==
    IF cfg.Flags.DryRun THEN NewMockExchange
    ELSE IF cfg.Exchange.Name = S_binance THEN NewBinanceExchange(cfg)
    ELSE IF cfg.Exchange.Name = S_okx THEN NewOKXExchange(cfg)
    ELSE [exchange |-> "nil", ctor |-> "none", err |-> ErrUnsupportedExchange]

S_mockOrderID == <<"m","o","c","k","-","o","r","d","e","r","-","1","2","3","4","5">>

S_buy == <<"b","u","y">>

S_filled == <<"f","i","l","l","e","d">>

\* decimal.NewFromFloat(50000)
MockPrice == [value |-> 50000, exp |-> 0]

\* decimal.NewFromFloat(10000)
MockBalance == [value |-> 10000, exp |-> 0]

\* MockExchange.PlaceMarketBuyOrder: always a filled market buy.  Spent is
\* the quoteAmount argument; the Quantity (quoteAmount / 50000) is only
\* logged by the caller and is not represented.
MockPlaceMarketBuyOrder(symbol, quoteAmount) ==
    [order |-> [ID |-> S_mockOrderID, Symbol |-> symbol, Side |-> S_buy,
                Type |-> S_market, Spent |-> quoteAmount, Price |-> MockPrice,
                Status |-> S_filled, On |-> "mock"],
     err |-> ErrNil]

\* MockExchange.GetBalance: 10000 of every asset
MockGetBalance(asset) == [balance |-> MockBalance, err |-> ErrNil]

\* Decimal.LessThan
DecLess(a, b) ==
    LET m == IF a.exp < b.exp THEN a.exp ELSE b.exp
    IN  a.value * Pow10(a.exp - m) < b.value * Pow10(b.exp - m)

-----------------------------------------------------------------------------
(* Package main: extractQuoteCurrency, checkBalanceAndNotify               *)

ErrInvalidSymbolFormat == "invalid symbol format"

ErrNoQuoteCurrency == "unable to extract quote currency from symbol"

ErrExtractQuoteCurrency == "failed to extract quote currency"

ErrGetBalance == "failed to get balance"

ErrBalanceThreshold == "invalid balance threshold"

Q_USDT == <<"U","S","D","T">>

Q_USDC == <<"U","S","D","C">>

Q_BUSD == <<"B","U","S","D">>

Q_USD == <<"U","S","D">>

Q_BTC == <<"B","T","C">>

Q_ETH == <<"E","T","H">>

Q_FDUSD == <<"F","D","U","S","D">>

\* commonQuotes, in the order of the slice literal
commonQuotes == <<Q_USDT, Q_USDC, Q_BUSD, Q_USD, Q_BTC, Q_ETH, Q_FDUSD>>

\* strings.HasSuffix
HasSuffix(s, suffix) ==
    /\ Len(s) >= Len(suffix)
    /\ SubSeq(s, Len(s) - Len(suffix) + 1, Len(s)) = suffix

\* positions of "-" in the symbol
Hyphens(symbol) == {i \in DOMAIN symbol : symbol[i] = "-"}

\* extractQuoteCurrency: parts[1] of a two-part split on "-", else the first
\* entry of commonQuotes that is a suffix of the symbol
extractQuoteCurrency(symbol) ==
    IF Hyphens(symbol) # {}
    THEN IF Cardinality(Hyphens(symbol)) + 1 # 2
         THEN [quote |-> <<>>, err |-> ErrInvalidSymbolFormat]
         ELSE LET h == CHOOSE i \in Hyphens(symbol) : TRUE
              IN  [quote |-> SubSeq(symbol, h + 1, Len(symbol)), err |-> ErrNil]
    ELSE LET hits == {i \in DOMAIN commonQuotes : HasSuffix(symbol, commonQuotes[i])}
         IN  IF hits = {} THEN [quote |-> <<>>, err |-> ErrNoQuoteCurrency]
             ELSE [quote |-> commonQuotes[CHOOSE i \in hits : \A j \in hits : i <= j],
                   err |-> ErrNil]

\* checkBalanceAndNotify on the mock exchange: the error it returns, the
\* assets whose balance it queried, and whether the low-balance notification
\* was issued (sendLowBalanceNotification only logs and returns nil)
checkBalanceAndNotify(p) ==
    LET q  == extractQuoteCurrency(p.Strategy.Symbol)
        b  == MockGetBalance(q.quote)
        th == NewFromString(p.Strategy.BalanceThreshold)
    IN  IF q.err # ErrNil
        THEN [err |-> ErrExtractQuoteCurrency, queried |-> <<>>, low |-> FALSE]
        ELSE IF b.err # ErrNil
        THEN [err |-> ErrGetBalance, queried |-> <<q.quote>>, low |-> FALSE]
        ELSE IF ~th.ok
        THEN [err |-> ErrBalanceThreshold, queried |-> <<q.quote>>, low |-> FALSE]
        ELSE [err |-> ErrNil, queried |-> <<q.quote>>, low |-> DecLess(b.balance, th.d)]

BalanceCheckErrorReturned(err) == err

\* runDCAStrategy logs the error of checkBalanceAndNotify and returns nil
BalanceCheckErrorLogged(err) == ErrNil

ErrParsePayload == "failed to parse payload"

ErrConvertUnified == "failed to convert to unified format"

ErrCreateExchange == "failed to create exchange"

ErrStrategy == "DCA strategy failed"

-----------------------------------------------------------------------------
(* Inputs                                                                  *)

AmountAlphabet == {"5", "-", "."}

\* every string over AmountAlphabet of length 0..MaxAmountLen
GeneratedAmounts ==
    UNION {[1..n -> AmountAlphabet] : n \in 0..MaxAmountLen}

\* "10", "10.00", "0", "-5", "invalid" (as "x"), "1e2", "5e", "+5", "1.2.3"
NamedAmounts ==
    {<<"1","0">>, <<"1","0",".","0","0">>, <<"0">>, <<"-","5">>, <<"x">>,
     <<"1","e","2">>, <<"5","e">>, <<"+","5">>, <<"1",".","2",".","3">>}

S_10 == <<"1","0">>

S_50_0 == <<"5","0",".","0">>

S_x == <<"x">>

S_neg1 == <<"-","1">>

PathsBag == [EmptyBag EXCEPT !["apiKeyPath"] = Str(S_pathA),
                             !["apiSecretPath"] = Str(S_pathB),
                             !["passphrasePath"] = Str(S_pathC)]

InlineBag == [EmptyBag EXCEPT !["apiKey"] = Str(S_k),
                              !["apiSecret"] = Str(S_s),
                              !["passphrase"] = Str(S_p)]

\* every key present and string-typed
FullBag == [PathsBag EXCEPT !["apiKey"] = Str(S_k),
                            !["apiSecret"] = Str(S_s),
                            !["passphrase"] = Str(S_p)]

\* wrong-typed apiKeyPath and apiKey, missing passphrasePath and passphrase
MistypedBag == [EmptyBag EXCEPT !["apiKeyPath"] = Num,
                                !["apiSecretPath"] = Str(S_pathB),
                                !["apiKey"] = Num,
                                !["apiSecret"] = Str(S_s)]

CredentialBags == {EmptyBag, PathsBag, InlineBag, FullBag, MistypedBag}

TelegramBag == [EmptyBag EXCEPT !["chatId"] = Str(S_chat),
                                !["botTokenPath"] = Str(S_tok)]

TelegramBlocks ==
    {<<>>,
     <<[type |-> Str(S_ssm), config |-> TelegramBag]>>,
     <<[type |-> Str(S_inline), config |-> TelegramBag]>>,
     <<[type |-> Str(S_ssm), config |-> [TelegramBag EXCEPT !["chatId"] = Num]]>>,
     <<[type |-> Str(S_env), config |-> TelegramBag]>>,
     <<[type |-> Str(S_vault), config |-> [TelegramBag EXCEPT !["botTokenPath"] = Num]]>>}

\* Nested payloads that exercise the validation rules of ParseDCAPayload
ValidationEvents ==
    [shape : {"nested"}, syntaxOK : {TRUE},
     version : {Absent, Num, Str(S_v2), Str(S_V2), Str(S_v1)},
     name : {Absent, Str(S_binance), Str(S_kraken)},
     credType : {Str(S_ssm)},
     credConfig : {PathsBag},
     symbol : {Absent, Str(S_btc_usdt)},
     quoteAmount : {Absent} \cup {Str(a) : a \in GeneratedAmounts \cup NamedAmounts},
     balanceThreshold : {Absent, Num, Str(S_50_0), Str(S_x), Str(S_neg1)},
     orderType : {Absent, Str(S_empty), Str(S_market), Str(S_limit)},
     telegram : {<<>>},
     dryRun : {TRUE}]

\* Nested payloads that exercise the credential and notification mapping
MappingEvents ==
    [shape : {"nested"}, syntaxOK : {TRUE},
     version : {Str(S_v2)},
     name : {Str(S_binance), Str(S_Binance), Str(S_okx), Str(S_OKX), Str(S_kraken)},
     credType : {Absent, Str(S_ssm), Str(S_inline), Str(S_env), Str(S_vault)},
     credConfig : CredentialBags,
     symbol : {Str(S_btc_usdt), Str(S_BTC_USDT)},
     quoteAmount : {Str(S_10), Str(S_x), Str(S_neg1)},
     balanceThreshold : {Absent, Str(S_50_0), Str(S_x)},
     orderType : {Absent},
     telegram : TelegramBlocks,
     dryRun : BOOLEAN]

\* `{"version": "v2", "exchange":` : not a JSON document
MalformedEvent ==
    [shape |-> "nested", syntaxOK |-> FALSE,
     version |-> Str(S_v2), name |-> Absent, credType |-> Absent,
     credConfig |-> EmptyBag, symbol |-> Absent, quoteAmount |-> Absent,
     balanceThreshold |-> Absent, orderType |-> Absent,
     telegram |-> <<>>, dryRun |-> FALSE]

S_ABC == <<"A","-","B","-","C">>

S_BTCdash == <<"B","T","C","-">>

S_XYZ == <<"X","Y","Z">>

S_btcusdt == <<"b","t","c","u","s","d","t">>

S_1e5 == <<"1","e","5">>

\* "BTC" followed by each entry of commonQuotes
BaseQuoteSymbols == {Q_BTC \o commonQuotes[i] : i \in DOMAIN commonQuotes}

SymbolInputs ==
    BaseQuoteSymbols \cup {S_BTC_USDT, S_btc_usdt, S_ABC, S_BTCdash, S_XYZ, S_btcusdt}

\* Accepted payloads that exercise the order and the balance check
StrategyEvents ==
    [shape : {"nested"}, syntaxOK : {TRUE},
     version : {Str(S_v2)},
     name : {Str(S_binance), Str(S_OKX), Str(S_kraken)},
     credType : {Str(S_ssm)},
     credConfig : {PathsBag},
     symbol : {Str(sym) : sym \in SymbolInputs},
     quoteAmount : {Str(S_10)},
     balanceThreshold : {Absent, Str(S_50_0), Str(S_1e5)},
     orderType : {Absent},
     telegram : {<<>>, <<[type |-> Str(S_ssm), config |-> TelegramBag]>>},
     dryRun : BOOLEAN]

NestedEvents ==
    ValidationEvents \cup MappingEvents \cup StrategyEvents \cup {MalformedEvent}

S_okxSpaced == <<" ","O","K","X"," ">>

S_ethSpaced == <<" ","e","t","h","-","u","s","d","t"," ">>

S_space == <<" ">>

S_0 == <<"0">>

S_neg5 == <<"-","5">>

LegacyOKXBlocks ==
    {<<>>,
     <<[APIKeyPath |-> S_pathA, APISecretPath |-> S_pathB,
        PassphrasePath |-> S_pathC, Inline |-> <<>>]>>,
     <<[APIKeyPath |-> <<>>, APISecretPath |-> <<>>, PassphrasePath |-> <<>>,
        Inline |-> <<[APIKey |-> S_k, APISecret |-> S_s, Passphrase |-> S_p]>>]>>}

LegacyBinanceBlocks ==
    {<<>>, <<[APIKeyPath |-> S_pathA, APISecretPath |-> S_pathB]>>}

LegacyTelegramBlocks ==
    {<<>>, <<[BotTokenPath |-> S_tok, ChatID |-> S_chat, Sink |-> S_okxSpaced]>>}

\* Flat payloads for ParseUnifiedV2
LegacyEvents ==
    [shape : {"legacy"}, syntaxOK : {TRUE},
     version : {Absent, Str(S_v2), Str(S_v1)},
     exchange : {Absent, Str(S_Binance), Str(S_okxSpaced), Str(S_kraken)},
     symbol : {Absent, Str(S_btc_usdt), Str(S_space), Str(S_ethSpaced)},
     targetAsset : {Absent, Str(S_btc)},
     orderCurrency : {Absent, Str(S_usdt)},
     quoteAmount : {Absent, Str(S_10), Str(S_0), Str(S_neg5), Str(S_x)},
     balanceThreshold : {Absent, Num, Str(S_space), Str(S_x)},
     okx : LegacyOKXBlocks,
     binance : LegacyBinanceBlocks,
     telegram : LegacyTelegramBlocks,
     dryRun : {FALSE}]

Events == NestedEvents \cup LegacyEvents

-----------------------------------------------------------------------------
(* State machine: one invocation                                           *)

VARIABLES
    event,      \* the raw input of the invocation
    entry,      \* the entry point that was called
    pc,         \* position inside the entry point
    payload,    \* *DCAPayload: <<>> is nil
    parseErr,   \* error of ParseDCAPayload
    unified,    \* the Unified value
    unifyErr,   \* error of ToUnified / ParseUnifiedV2
    exchange,   \* the Exchange created by NewExchange: "none", "nil", "mock"
    ctor,       \* the exchange constructor NewExchange called
    exchangeErr,\* error of NewExchange
    orders,     \* orders placed through PlaceMarketBuyOrder, in order
    queried,    \* assets passed to GetBalance, in order
    balanceErr, \* error of checkBalanceAndNotify
    lowBalance, \* the low-balance notification was issued
    result      \* error returned by handleRequest; "pending" until it returns

execVars == <<exchange, ctor, exchangeErr, orders, queried, balanceErr, lowBalance>>

vars == <<event, entry, pc, payload, parseErr, unified, unifyErr,
          exchange, ctor, exchangeErr, orders, queried, balanceErr, lowBalance,
          result>>

Init ==
    /\ event \in Events
    /\ entry = "none"
    /\ pc = "start"
    /\ payload = <<>>
    /\ parseErr = ErrNil
    /\ unified = ZeroUnified
    /\ unifyErr = ErrNil
    /\ exchange = "none"
    /\ ctor = "none"
    /\ exchangeErr = ErrNil
    /\ orders = <<>>
    /\ queried = <<>>
    /\ balanceErr = ErrNil
    /\ lowBalance = FALSE
    /\ result = "pending"

\* handleRequest: payload, err := config.ParseDCAPayload(event)
HandleParse ==
    /\ pc = "start"
    /\ event.shape = "nested"
    /\ LET r == ParseDCAPayload(event)
       IN  /\ payload' = r.payload
           /\ parseErr' = r.err
           /\ pc' = IF r.err = ErrNil THEN "parsed" ELSE "done"
    /\ entry' = "handleRequest"
    /\ result' = IF ParseDCAPayload(event).err = ErrNil THEN "pending"
                 ELSE ErrParsePayload
    /\ UNCHANGED <<event, unified, unifyErr>>
    /\ UNCHANGED execVars

\* handleRequest: unified, err := payload.ToUnified()
HandleUnify ==
    /\ pc = "parsed"
    /\ LET r == ToUnified(payload[1])
       IN  /\ unified' = r.unified
           /\ unifyErr' = r.err
           /\ pc' = IF r.err = ErrNil THEN "unified" ELSE "done"
           /\ result' = IF r.err = ErrNil THEN "pending" ELSE ErrConvertUnified
    /\ UNCHANGED <<event, entry, payload, parseErr>>
    /\ UNCHANGED execVars

\* handleRequest: exchange, err := exchange.NewExchange(payload)
HandleNewExchange ==
    /\ pc = "unified"
    /\ LET r == NewExchange(payload[1])
       IN  /\ exchange' = r.exchange
           /\ ctor' = r.ctor
           /\ exchangeErr' = r.err
           /\ pc' = IF r.err = ErrNil THEN "exchange" ELSE "done"
           /\ result' = IF r.err = ErrNil THEN "pending" ELSE ErrCreateExchange
    /\ UNCHANGED <<event, entry, payload, parseErr, unified, unifyErr>>
    /\ UNCHANGED <<orders, queried, balanceErr, lowBalance>>

\* runDCAStrategy up to the order: parse the quote amount, place the market
\* buy order on the exchange (the only Exchange a successful NewExchange
\* returns is the mock)
RunPlaceOrder ==
    /\ pc = "exchange"
    /\ exchange = "mock"
    /\ LET qa == NewFromString(payload[1].Strategy.QuoteAmount)
           r  == MockPlaceMarketBuyOrder(payload[1].Strategy.Symbol, qa.d)
       IN  IF ~qa.ok
           THEN /\ orders' = orders
                /\ pc' = "done"
                /\ result' = ErrStrategy
           ELSE /\ orders' = Append(orders, r.order)
                /\ IF r.err # ErrNil
                   THEN pc' = "done" /\ result' = ErrStrategy
                   ELSE IF payload[1].Strategy.BalanceThreshold # <<>>
                   THEN pc' = "balance" /\ result' = "pending"
                   ELSE pc' = "done" /\ result' = ErrNil
    /\ UNCHANGED <<event, entry, payload, parseErr, unified, unifyErr>>
    /\ UNCHANGED <<exchange, ctor, exchangeErr, queried, balanceErr, lowBalance>>

\* runDCAStrategy, step 2: checkBalanceAndNotify, whose error is only logged
RunBalanceCheck ==
    /\ pc = "balance"
    /\ LET r == checkBalanceAndNotify(payload[1])
       IN  /\ queried' = queried \o r.queried
           /\ balanceErr' = r.err
           /\ lowBalance' = r.low
           /\ result' = BalanceCheckErrorLogged(r.err)
    /\ pc' = "done"
    /\ UNCHANGED <<event, entry, payload, parseErr, unified, unifyErr>>
    /\ UNCHANGED <<exchange, ctor, exchangeErr, orders>>

\* ToUnified called on a DCAPayload value that did not pass through
\* ParseDCAPayload (TestDCAPayload_ToUnified, TestDCAPayload_ToUnified_Errors)
DirectToUnified ==
    /\ pc = "start"
    /\ event.shape = "nested"
    /\ UnmarshalDCAPayload(event).ok
    /\ LET p == UnmarshalDCAPayload(event).payload[1]
           r == ToUnified(p)
       IN  /\ payload' = <<p>>
           /\ unified' = r.unified
           /\ unifyErr' = r.err
    /\ entry' = "ToUnified"
    /\ pc' = "done"
    /\ UNCHANGED <<event, parseErr, result>>
    /\ UNCHANGED execVars

\* ParseUnifiedV2 called on a flat payload
LegacyParse ==
    /\ pc = "start"
    /\ event.shape = "legacy"
    /\ LET r == ParseUnifiedV2(event)
       IN  /\ unified' = r.unified
           /\ unifyErr' = r.err
    /\ entry' = "ParseUnifiedV2"
    /\ pc' = "done"
    /\ UNCHANGED <<event, payload, parseErr, result>>
    /\ UNCHANGED execVars

Next ==
    \/ HandleParse
    \/ HandleUnify
    \/ HandleNewExchange
    \/ RunPlaceOrder
    \/ RunBalanceCheck
    \/ DirectToUnified
    \/ LegacyParse

Spec == Init /\ [][Next]_vars

-----------------------------------------------------------------------------
(* Properties of ParseDCAPayload                                           *)

\* ParseDCAPayload has returned in this invocation
ParseReturned == entry = "handleRequest"

ParseSucceeded == ParseReturned /\ parseErr = ErrNil /\ payload # <<>>

ParseFailedWith(e) == ParseReturned /\ parseErr = e /\ payload = <<>>

NonEmptyString(jv) == jv.t = "str" /\ jv.v # <<>>

\* json.Unmarshal accepted the document
WellFormed == event.shape = "nested" /\ UnmarshalDCAPayload(event).ok

AmountParses(s) == NewFromString(s).ok

\* the validation rules, read off the raw document
RawVersionIsV2 == ToLower(DecodeString(event.version)) = S_v2

RawRequiredPresent ==
    /\ DecodeString(event.name) # <<>>
    /\ DecodeString(event.symbol) # <<>>
    /\ DecodeString(event.quoteAmount) # <<>>

ExpectedOrderType ==
    IF DecodeString(event.orderType) = <<>> THEN S_market ELSE event.orderType.v

\* C1 as stated: every syntactically valid payload with version "v2",
\* non-empty exchange name, symbol and quoteAmount and a parseable quoteAmount
\* is accepted, with orderType defaulted to "market" when omitted or empty and
\* unchanged otherwise.
C1_ParseSucceedsAsStated ==
    (/\ ParseReturned
     /\ event.syntaxOK
     /\ event.version = Str(S_v2)
     /\ NonEmptyString(event.name)
     /\ NonEmptyString(event.symbol)
     /\ NonEmptyString(event.quoteAmount)
     /\ AmountParses(event.quoteAmount.v))
    => (/\ ParseSucceeded
        /\ payload[1].Strategy.OrderType = ExpectedOrderType)

\* C1 amended: the same, for payloads that json.Unmarshal decodes (every
\* member has the JSON type of its field) and whose balanceThreshold is empty
\* or a parseable decimal.
C1_ParseSucceeds ==
    (/\ ParseReturned
     /\ WellFormed
     /\ event.version = Str(S_v2)
     /\ NonEmptyString(event.name)
     /\ NonEmptyString(event.symbol)
     /\ NonEmptyString(event.quoteAmount)
     /\ AmountParses(event.quoteAmount.v)
     /\ \/ DecodeString(event.balanceThreshold) = <<>>
        \/ AmountParses(event.balanceThreshold.v))
    => (/\ ParseSucceeded
        /\ payload[1].Strategy.OrderType = ExpectedOrderType)

\* a "v2" payload without orderType was accepted and carries "market"
C1_Witness ==
    /\ ParseSucceeded
    /\ event.version = Str(S_v2)
    /\ event.orderType = Absent
    /\ event.balanceThreshold = Str(S_50_0)
    /\ payload[1].Strategy.OrderType = S_market

\* C2: a well-formed payload whose version does not lower-case to "v2"
\* (omitted and "v1" included) is rejected with the version error and no
\* instruction, whatever its other fields; "v2" and "V2" pass this check.
C2_UnsupportedVersion ==
    (ParseReturned /\ WellFormed)
    => /\ ~RawVersionIsV2 => ParseFailedWith(ErrVersion)
       /\ event.version \in {Absent, Str(S_v1)} => ParseFailedWith(ErrVersion)
       /\ event.version \in {Str(S_v2), Str(S_V2)} => parseErr # ErrVersion

\* version "v1" together with a missing exchange name and an unparseable
\* quoteAmount: the version error wins
C2_Witness ==
    /\ ParseFailedWith(ErrVersion)
    /\ event.version = Str(S_v1)
    /\ event.name = Absent
    /\ event.quoteAmount = Str(S_x)

\* C3: with version "v2", an empty exchange name gives the exchange-name
\* error; a present name and an empty symbol give the symbol error; both
\* present and an empty quoteAmount give the quoteAmount-required error; no
\* instruction is returned in any of the three cases.
C3_MissingField ==
    (ParseReturned /\ WellFormed /\ RawVersionIsV2)
    => /\ DecodeString(event.name) = <<>> => ParseFailedWith(ErrExchangeName)
       /\ (DecodeString(event.name) # <<>> /\ DecodeString(event.symbol) = <<>>)
            => ParseFailedWith(ErrSymbol)
       /\ (/\ DecodeString(event.name) # <<>>
           /\ DecodeString(event.symbol) # <<>>
           /\ DecodeString(event.quoteAmount) = <<>>)
            => ParseFailedWith(ErrQuoteAmountRequired)

\* exchange name and symbol both missing: the exchange name is reported
C3_Witness ==
    /\ ParseFailedWith(ErrExchangeName)
    /\ RawVersionIsV2
    /\ event.name = Absent
    /\ event.symbol = Absent

\* C4: past the version and required-field checks, an unparseable
\* quoteAmount gives the invalid-quoteAmount error; a parseable quoteAmount
\* with a non-empty unparseable balanceThreshold gives the
\* invalid-balanceThreshold error; an empty balanceThreshold is never rejected.
C4_InvalidAmount ==
    (ParseReturned /\ WellFormed /\ RawVersionIsV2 /\ RawRequiredPresent)
    => /\ ~AmountParses(event.quoteAmount.v)
            => ParseFailedWith(ErrInvalidQuoteAmount)
       /\ (/\ AmountParses(event.quoteAmount.v)
           /\ DecodeString(event.balanceThreshold) # <<>>
           /\ ~AmountParses(event.balanceThreshold.v))
            => ParseFailedWith(ErrInvalidBalanceThreshold)
       /\ DecodeString(event.balanceThreshold) = <<>>
            => parseErr # ErrInvalidBalanceThreshold

\* quoteAmount "10" with balanceThreshold "x" is rejected for the threshold
C4_Witness ==
    /\ ParseFailedWith(ErrInvalidBalanceThreshold)
    /\ event.quoteAmount = Str(S_10)
    /\ event.balanceThreshold = Str(S_x)

InstructionFieldsValid(p) ==
    /\ ToLower(p.Version) = S_v2
    /\ p.Exchange.Name # <<>>
    /\ p.Strategy.Symbol # <<>>
    /\ p.Strategy.QuoteAmount # <<>>
    /\ AmountParses(p.Strategy.QuoteAmount)
    /\ p.Strategy.BalanceThreshold # <<>> => AmountParses(p.Strategy.BalanceThreshold)

\* C5 as stated: a returned instruction has version "v2" (any case),
\* non-empty exchange name, symbol and quoteAmount, and quoteAmount and a
\* non-empty balanceThreshold are valid non-negative decimals.
C5_InvariantAsStated ==
    ParseSucceeded
    => /\ InstructionFieldsValid(payload[1])
       /\ ~IsNegative(NewFromString(payload[1].Strategy.QuoteAmount).d)
       /\ payload[1].Strategy.BalanceThreshold # <<>>
            => ~IsNegative(NewFromString(payload[1].Strategy.BalanceThreshold).d)

\* C5 amended: the same without the sign condition: quoteAmount and a
\* non-empty balanceThreshold are valid decimals of either sign.
C5_Invariant ==
    ParseSucceeded => InstructionFieldsValid(payload[1])

\* an accepted instruction with a negative quoteAmount
C5_Witness ==
    /\ ParseSucceeded
    /\ payload[1].Strategy.QuoteAmount = S_neg5
    /\ IsNegative(NewFromString(payload[1].Strategy.QuoteAmount).d)

-----------------------------------------------------------------------------
(* Properties of ToUnified, populateUnifiedCredentials and ParseUnifiedV2  *)

\* ToUnified has returned in this invocation
ToUnifiedReturned ==
    \/ entry = "ToUnified"
    \/ entry = "handleRequest" /\ parseErr = ErrNil /\ pc # "parsed"

ToUnifiedSucceeded == ToUnifiedReturned /\ unifyErr = ErrNil

LegacySucceeded == entry = "ParseUnifiedV2" /\ unifyErr = ErrNil

\* the instruction ToUnified was called on
Instr == payload[1]

CredType == Instr.Exchange.Credentials.Type

CredBag == Instr.Exchange.Credentials.Config

\* an output field equals the bag's value when that is a string and is
\* empty when the key is missing or holds another type
CopiedFrom(field, bag, key) ==
    /\ bag[key].t = "str" => field = bag[key].v
    /\ bag[key].t # "str" => field = <<>>

\* C6 as stated: every plan produced by ToUnified or ParseUnifiedV2 has
\* exactly one of the Binance and OKX credential records populated, the one
\* that matches the plan's exchange identifier.
C6_ExactlyOneRecordAsStated ==
    (ToUnifiedSucceeded \/ LegacySucceeded)
    => /\ (unified.Binance # <<>>) # (unified.OKX # <<>>)
       /\ unified.Binance # <<>> => unified.Exchange = S_binance
       /\ unified.OKX # <<>> => unified.Exchange = S_okx
       /\ unified.OKXInline # <<>> => unified.Exchange = S_okx

\* C6 amended: a plan produced by ToUnified has the Binance record exactly
\* when its exchange identifier is "binance", the OKX record exactly when it
\* is "okx" (the inline record only next to it) and no record for any other
\* identifier; a plan produced by ParseUnifiedV2 has the Binance (OKX) record
\* exactly when the payload has a credentials.binance (credentials.okx)
\* member, whatever the exchange identifier.
C6_RecordsPopulated ==
    /\ ToUnifiedSucceeded
        => /\ unified.Binance # <<>> <=> unified.Exchange = S_binance
           /\ unified.OKX # <<>> <=> unified.Exchange = S_okx
           /\ unified.OKXInline # <<>> => unified.OKX # <<>>
    /\ LegacySucceeded
        => /\ unified.Binance # <<>> <=> event.binance # <<>>
           /\ unified.OKX # <<>> <=> event.okx # <<>>
           /\ unified.OKXInline # <<>> => unified.OKX # <<>>

\* a legacy plan for "binance" that carries both records
C6_Witness ==
    /\ LegacySucceeded
    /\ unified.Exchange = S_binance
    /\ unified.Binance # <<>>
    /\ unified.OKX # <<>>

\* C7: for an exchange name that lower-cases to "binance" the plan has a
\* Binance record and neither OKX record; for credential kind "ssm" its two
\* paths are the bag's string values of apiKeyPath and apiSecretPath ("/a"
\* and "/b" for that bag), for every other kind both are empty.
C7_BinanceRecord ==
    (ToUnifiedSucceeded /\ ToLower(Instr.Exchange.Name) = S_binance)
    => /\ unified.Binance # <<>>
       /\ unified.OKX = <<>>
       /\ unified.OKXInline = <<>>
       /\ CredType = S_ssm
            => /\ CopiedFrom(unified.Binance[1].APIKeyPath, CredBag, "apiKeyPath")
               /\ CopiedFrom(unified.Binance[1].APISecretPath, CredBag, "apiSecretPath")
       /\ (CredType = S_ssm /\ CredBag = PathsBag)
            => unified.Binance[1] = [APIKeyPath |-> S_pathA, APISecretPath |-> S_pathB]
       /\ CredType # S_ssm
            => unified.Binance[1] = [APIKeyPath |-> <<>>, APISecretPath |-> <<>>]

\* "Binance" with kind "ssm" and the bag {apiKeyPath:"/a", apiSecretPath:"/b"}
C7_Witness ==
    /\ ToUnifiedSucceeded
    /\ entry = "handleRequest"
    /\ Instr.Exchange.Name = S_Binance
    /\ CredType = S_ssm
    /\ unified.Binance = <<[APIKeyPath |-> S_pathA, APISecretPath |-> S_pathB]>>
    /\ unified.OKX = <<>>

\* C8: for exchange "okx" and credential kind "inline" the SSM-shaped OKX
\* record is allocated with three empty paths and the inline record holds
\* apiKey, apiSecret and passphrase from the bag; for kind "ssm" the
\* SSM-shaped record holds the three paths and the inline record is absent.
C8_OKXRecords ==
    (ToUnifiedSucceeded /\ ToLower(Instr.Exchange.Name) = S_okx)
    => /\ CredType = S_inline
            => /\ unified.OKX = <<[APIKeyPath |-> <<>>, APISecretPath |-> <<>>,
                                   PassphrasePath |-> <<>>]>>
               /\ unified.OKXInline # <<>>
               /\ CopiedFrom(unified.OKXInline[1].APIKey, CredBag, "apiKey")
               /\ CopiedFrom(unified.OKXInline[1].APISecret, CredBag, "apiSecret")
               /\ CopiedFrom(unified.OKXInline[1].Passphrase, CredBag, "passphrase")
       /\ CredType = S_ssm
            => /\ unified.OKX # <<>>
               /\ CopiedFrom(unified.OKX[1].APIKeyPath, CredBag, "apiKeyPath")
               /\ CopiedFrom(unified.OKX[1].APISecretPath, CredBag, "apiSecretPath")
               /\ CopiedFrom(unified.OKX[1].PassphrasePath, CredBag, "passphrasePath")
               /\ unified.OKXInline = <<>>

\* "okx", kind "inline", bag {apiKey:"k", apiSecret:"s", passphrase:"p"}
C8_Witness ==
    /\ ToUnifiedSucceeded
    /\ Instr.Exchange.Name = S_okx
    /\ CredType = S_inline
    /\ CredBag = InlineBag
    /\ unified.OKX = <<[APIKeyPath |-> <<>>, APISecretPath |-> <<>>,
                        PassphrasePath |-> <<>>]>>
    /\ unified.OKXInline = <<[APIKey |-> S_k, APISecret |-> S_s, Passphrase |-> S_p]>>

OtherExchange ==
    ToLower(Instr.Exchange.Name) \notin {S_binance, S_okx}

\* C9: for an exchange identifier that lower-cases to neither "binance" nor
\* "okx", ToUnified reports no error on account of the exchange (it succeeds
\* whenever both amounts parse) and the plan has no credential record.
C9_OtherExchange ==
    (ToUnifiedReturned /\ OtherExchange)
    => /\ unifyErr \in {ErrNil, ErrInvalidQuoteAmount, ErrInvalidBalanceThreshold}
       /\ (/\ AmountParses(Instr.Strategy.QuoteAmount)
           /\ \/ Instr.Strategy.BalanceThreshold = <<>>
              \/ AmountParses(Instr.Strategy.BalanceThreshold))
            => unifyErr = ErrNil
       /\ unifyErr = ErrNil
            => /\ unified.Binance = <<>>
               /\ unified.OKX = <<>>
               /\ unified.OKXInline = <<>>

\* "kraken" with a full credential bag: a plan without records
C9_Witness ==
    /\ ToUnifiedSucceeded
    /\ Instr.Exchange.Name = S_kraken
    /\ CredType = S_ssm
    /\ CredBag = FullBag
    /\ unified.Exchange = S_kraken
    /\ unified.Binance = <<>>
    /\ unified.OKX = <<>>

\* C10: ToUnified fails exactly when quoteAmount is not a parseable decimal
\* or balanceThreshold is non-empty and not a parseable decimal; the
\* credential and notification bags and their kind tags never make it fail.
C10_OnlyAmountsFail ==
    ToUnifiedReturned
    => /\ unifyErr # ErrNil
            <=> \/ ~AmountParses(Instr.Strategy.QuoteAmount)
                \/ /\ Instr.Strategy.BalanceThreshold # <<>>
                   /\ ~AmountParses(Instr.Strategy.BalanceThreshold)
       /\ unifyErr \in {ErrNil, ErrInvalidQuoteAmount, ErrInvalidBalanceThreshold}
       /\ (unifyErr = ErrNil /\ unified.Binance # <<>> /\ CredBag["apiKeyPath"].t # "str")
            => unified.Binance[1].APIKeyPath = <<>>
       /\ (unifyErr = ErrNil /\ unified.OKXInline # <<>> /\ CredBag["apiKey"].t # "str")
            => unified.OKXInline[1].APIKey = <<>>

\* an unknown kind tag, a wrong-typed apiKeyPath and a wrong-typed chatId:
\* the call succeeds
C10_Witness ==
    /\ ToUnifiedSucceeded
    /\ CredType = S_vault
    /\ CredBag = MistypedBag
    /\ Instr.Notifications.Telegram # <<>>
    /\ Instr.Notifications.Telegram[1].Config["chatId"] = Num
    /\ unified.Telegram # <<>>
    /\ unified.Telegram[1].ChatID = <<>>

\* a direct call with an unparseable balanceThreshold fails
C10_FailureWitness ==
    /\ entry = "ToUnified"
    /\ Instr.Strategy.QuoteAmount = S_10
    /\ Instr.Strategy.BalanceThreshold = S_x
    /\ unifyErr = ErrInvalidBalanceThreshold

-----------------------------------------------------------------------------
(* Telegram mapping, legacy symbol and amounts, check order                *)

\* C11: ToUnified allocates a Telegram record exactly when the instruction
\* has a Telegram block; its chatId is the bag's string-typed chatId for
\* every kind tag; its botTokenPath is the bag's string-typed botTokenPath
\* for kind "ssm" and empty for every other kind.
C11_TelegramRecord ==
    ToUnifiedSucceeded
    => /\ unified.Telegram # <<>> <=> Instr.Notifications.Telegram # <<>>
       /\ Instr.Notifications.Telegram # <<>>
            => LET tg == Instr.Notifications.Telegram[1]
                   out == unified.Telegram[1]
               IN  /\ CopiedFrom(out.ChatID, tg.Config, "chatId")
                   /\ tg.Type = S_ssm
                        => CopiedFrom(out.BotTokenPath, tg.Config, "botTokenPath")
                   /\ tg.Type # S_ssm => out.BotTokenPath = <<>>

\* kind "inline" with a bag holding chatId and botTokenPath: only the chat
\* id is copied
C11_Witness ==
    /\ ToUnifiedSucceeded
    /\ Instr.Notifications.Telegram # <<>>
    /\ Instr.Notifications.Telegram[1].Type = S_inline
    /\ Instr.Notifications.Telegram[1].Config = TelegramBag
    /\ unified.Telegram = <<[BotTokenPath |-> <<>>, ChatID |-> S_chat, Sink |-> <<>>]>>

LegacyReturned == entry = "ParseUnifiedV2"

LegacyRaw == [symbol |-> DecodeString(event.symbol),
              targetAsset |-> DecodeString(event.targetAsset),
              orderCurrency |-> DecodeString(event.orderCurrency),
              quoteAmount |-> DecodeString(event.quoteAmount)]

ComposedSymbol ==
    ToUpper(LegacyRaw.targetAsset) \o <<"-">> \o ToUpper(LegacyRaw.orderCurrency)

S_ETH_USDT == <<"E","T","H","-","U","S","D","T">>

\* C12 as stated: a present dca.symbol gives that value upper-cased; an
\* absent one with both targetAsset and orderCurrency gives
\* upper(targetAsset)-upper(orderCurrency); an absent one with either of
\* them empty fails with no plan.
C12_SymbolResolutionAsStated ==
    LegacyReturned
    => /\ (unifyErr = ErrNil /\ LegacyRaw.symbol # <<>>)
            => unified.Symbol = ToUpper(LegacyRaw.symbol)
       /\ (/\ unifyErr = ErrNil
           /\ LegacyRaw.symbol = <<>>
           /\ LegacyRaw.targetAsset # <<>>
           /\ LegacyRaw.orderCurrency # <<>>)
            => unified.Symbol = ComposedSymbol
       /\ (/\ LegacyRaw.symbol = <<>>
           /\ LegacyRaw.targetAsset = <<>> \/ LegacyRaw.orderCurrency = <<>>)
            => unifyErr # ErrNil /\ unified = ZeroUnified

\* C12 amended: dca.symbol counts as present when it is non-empty after
\* trimming white space, and the plan symbol is then the trimmed value
\* upper-cased; when it is empty after trimming and both targetAsset and
\* orderCurrency are non-empty the plan symbol is
\* upper(targetAsset)-upper(orderCurrency); when it is empty after trimming
\* and either of the two is empty the call fails with no plan.
C12_SymbolResolution ==
    LegacyReturned
    => /\ (unifyErr = ErrNil /\ TrimSpace(LegacyRaw.symbol) # <<>>)
            => unified.Symbol = ToUpper(TrimSpace(LegacyRaw.symbol))
       /\ (/\ unifyErr = ErrNil
           /\ TrimSpace(LegacyRaw.symbol) = <<>>
           /\ LegacyRaw.targetAsset # <<>>
           /\ LegacyRaw.orderCurrency # <<>>)
            => unified.Symbol = ComposedSymbol
       /\ (/\ TrimSpace(LegacyRaw.symbol) = <<>>
           /\ LegacyRaw.targetAsset = <<>> \/ LegacyRaw.orderCurrency = <<>>)
            => /\ unifyErr # ErrNil
               /\ unified = ZeroUnified
               /\ unifyErr \in {ErrInvalidJSON, ErrVersion, ErrExchangeRequired,
                                ErrSymbolRequired}

\* dca.symbol " eth-usdt " yields "ETH-USDT"
C12_Witness ==
    /\ LegacySucceeded
    /\ LegacyRaw.symbol = S_ethSpaced
    /\ unified.Symbol = S_ETH_USDT

\* a white-space dca.symbol with targetAsset "btc" and orderCurrency "usdt"
\* yields the composed "BTC-USDT"
C12_ComposedWitness ==
    /\ LegacySucceeded
    /\ LegacyRaw.symbol = S_space
    /\ unified.Symbol = S_BTC_USDT

NestedAmountsAcceptable ==
    /\ WellFormed
    /\ RawVersionIsV2
    /\ RawRequiredPresent
    /\ AmountParses(event.quoteAmount.v)
    /\ \/ DecodeString(event.balanceThreshold) = <<>>
       \/ AmountParses(event.balanceThreshold.v)

\* C13: ParseUnifiedV2 succeeds only for a quoteAmount that parses and is
\* strictly positive ("0" and "-5" are rejected, "10" gives 10), while
\* ParseDCAPayload followed by ToUnified accepts every parseable quoteAmount,
\* zero and negative values included.
C13_QuoteAmountAsymmetry ==
    /\ LegacySucceeded
        => /\ AmountParses(LegacyRaw.quoteAmount)
           /\ NewFromString(LegacyRaw.quoteAmount).d.value > 0
           /\ unified.QuoteAmount = NewFromString(LegacyRaw.quoteAmount).d
    /\ (LegacyReturned /\ LegacyRaw.quoteAmount \in {S_0, S_neg5})
        => unifyErr # ErrNil /\ unified = ZeroUnified
    /\ (LegacySucceeded /\ LegacyRaw.quoteAmount = S_10)
        => DecEqual(unified.QuoteAmount, [value |-> 10, exp |-> 0])
    /\ (ParseReturned /\ NestedAmountsAcceptable)
        => /\ ParseSucceeded
           /\ pc # "parsed"
                => /\ unifyErr = ErrNil
                   /\ unified.QuoteAmount = NewFromString(event.quoteAmount.v).d

\* the nested path has produced a plan with a negative quoteAmount
C13_Witness ==
    /\ entry = "handleRequest"
    /\ ToUnifiedSucceeded
    /\ Instr.Strategy.QuoteAmount = S_neg1
    /\ unified.QuoteAmount.value < 0

\* the legacy path has rejected quoteAmount "0" of an otherwise valid payload
C13_LegacyWitness ==
    /\ LegacyReturned
    /\ LegacyRaw.quoteAmount = S_0
    /\ unifyErr = ErrLegacyQuoteAmount

\* the checks of ParseDCAPayload in the claimed order: TRUE where the
\* payload violates the check
ChecksViolated ==
    <<~WellFormed,
      ~RawVersionIsV2,
      DecodeString(event.name) = <<>>,
      DecodeString(event.symbol) = <<>>,
      DecodeString(event.quoteAmount) = <<>>,
      ~AmountParses(DecodeString(event.quoteAmount)),
      /\ DecodeString(event.balanceThreshold) # <<>>
      /\ ~AmountParses(DecodeString(event.balanceThreshold))>>

CheckErrors ==
    <<ErrInvalidJSON, ErrVersion, ErrExchangeName, ErrSymbol,
      ErrQuoteAmountRequired, ErrInvalidQuoteAmount, ErrInvalidBalanceThreshold>>

ViolatedSet == {i \in DOMAIN ChecksViolated : ChecksViolated[i]}

\* C14: the error ParseDCAPayload returns is that of the first violated
\* check in the order malformed input, version, exchange.name,
\* strategy.symbol, quoteAmount present, quoteAmount decimal,
\* balanceThreshold decimal, whatever combination of checks is violated;
\* it succeeds when none is.
C14_FirstViolatedCheck ==
    ParseReturned
    => IF ViolatedSet = {} THEN ParseSucceeded
       ELSE ParseFailedWith(
              CheckErrors[CHOOSE i \in ViolatedSet : \A j \in ViolatedSet : i <= j])

\* symbol, quoteAmount and balanceThreshold checks all violated with a
\* valid version and name: the symbol error is returned
C14_Witness ==
    /\ ParseFailedWith(ErrSymbol)
    /\ ViolatedSet = {4, 6, 7}

\* C15: for every payload ParseDCAPayload accepts, ToUnified succeeds and
\* the plan's quoteAmount and balanceThreshold equal the decimals the
\* instruction's strings denote (exact zero for an empty balanceThreshold);
\* ToUnified fails only on instructions that did not come from a
\* successful parse.
C15_UnifyAfterParse ==
    /\ (entry = "handleRequest" /\ ToUnifiedReturned)
        => /\ unifyErr = ErrNil
           /\ DecEqual(unified.QuoteAmount, NewFromString(Instr.Strategy.QuoteAmount).d)
           /\ Instr.Strategy.BalanceThreshold = <<>>
                => unified.BalanceThreshold = DecimalZero
           /\ Instr.Strategy.BalanceThreshold # <<>>
                => DecEqual(unified.BalanceThreshold,
                            NewFromString(Instr.Strategy.BalanceThreshold).d)
           /\ Instr.Strategy.QuoteAmount = <<"1","0",".","0","0">>
                => DecEqual(unified.QuoteAmount, [value |-> 10, exp |-> 0])
           /\ Instr.Strategy.BalanceThreshold = S_50_0
                => DecEqual(unified.BalanceThreshold, [value |-> 50, exp |-> 0])
    /\ (ToUnifiedReturned /\ unifyErr # ErrNil) => entry = "ToUnified"

\* quoteAmount "10.00" without balanceThreshold: the plan holds 10 and 0
C15_Witness ==
    /\ entry = "handleRequest"
    /\ ToUnifiedSucceeded
    /\ Instr.Strategy.QuoteAmount = <<"1","0",".","0","0">>
    /\ Instr.Strategy.BalanceThreshold = <<>>
    /\ unified.QuoteAmount = [value |-> 1000, exp |-> -2]
    /\ unified.BalanceThreshold = DecimalZero

-----------------------------------------------------------------------------
(* handleRequest: exchange creation, order, balance check                  *)

HandlerEntered == entry = "handleRequest"

\* NewExchange has returned in this invocation
NewExchangeReturned ==
    /\ HandlerEntered
    /\ parseErr = ErrNil
    /\ unifyErr = ErrNil
    /\ pc \notin {"parsed", "unified"}

\* runDCAStrategy has run checkBalanceAndNotify
BalanceCheckReturned ==
    /\ NewExchangeReturned
    /\ pc = "done"
    /\ Len(orders) = 1
    /\ Instr.Strategy.BalanceThreshold # <<>>

\* C16: in one handleRequest invocation the order is placed at most once and
\* only after parse, unify and exchange creation succeeded; the balance is
\* queried at most once, only after the order returned successfully and only
\* for a non-empty balanceThreshold; an error of the balance check leaves the
\* result of the invocation at success.
C16_StepOrder ==
    /\ exchange # "none" => ParseSucceeded /\ ToUnifiedSucceeded
    /\ Len(orders) <= 1
    /\ orders # <<>>
        => /\ ParseSucceeded
           /\ ToUnifiedSucceeded
           /\ exchangeErr = ErrNil
           /\ exchange = "mock"
           /\ pc \in {"balance", "done"}
    /\ pc = "balance"
        => Len(orders) = 1 /\ Instr.Strategy.BalanceThreshold # <<>> /\ queried = <<>>
    /\ Len(queried) <= 1
    /\ queried # <<>>
        => /\ Len(orders) = 1
           /\ orders[1].Status = S_filled
           /\ Instr.Strategy.BalanceThreshold # <<>>
           /\ pc = "done"
    /\ (pc = "done" /\ payload # <<>> /\ Instr.Strategy.BalanceThreshold = <<>>)
        => queried = <<>> /\ balanceErr = ErrNil
    /\ balanceErr # ErrNil => Len(orders) = 1 /\ result = ErrNil
    /\ (pc = "done" /\ Len(orders) = 1) => result = ErrNil
    /\ (HandlerEntered /\ result = ErrNil) => Len(orders) = 1

\* the order was placed, the quote currency of "A-B-C" could not be
\* extracted, and the invocation still returned success
C16_Witness ==
    /\ BalanceCheckReturned
    /\ Instr.Strategy.Symbol = S_ABC
    /\ balanceErr = ErrExtractQuoteCurrency
    /\ queried = <<>>
    /\ Len(orders) = 1
    /\ result = ErrNil

\* the balance was queried after the order and found below the threshold
C16_LowBalanceWitness ==
    /\ BalanceCheckReturned
    /\ queried = <<Q_USDT>>
    /\ lowBalance
    /\ result = ErrNil

\* C17: with dryRun true NewExchange returns the mock exchange for every
\* exchange name and calls no real exchange constructor; a handleRequest
\* invocation with dryRun true on an accepted payload places its order on
\* the mock only and returns success.
C17_DryRunUsesMock ==
    (HandlerEntered /\ ParseSucceeded /\ Instr.Flags.DryRun)
    => /\ NewExchangeReturned
            => /\ exchange = "mock"
               /\ ctor = "NewMockExchange"
               /\ exchangeErr = ErrNil
       /\ result \in {"pending", ErrNil}
       /\ \A i \in DOMAIN orders : orders[i].On = "mock"
       /\ pc = "done" => result = ErrNil /\ Len(orders) = 1

\* dryRun true with the unsupported name "kraken": the order went to the
\* mock and the invocation returned success
C17_Witness ==
    /\ NewExchangeReturned
    /\ pc = "done"
    /\ Instr.Flags.DryRun
    /\ Instr.Exchange.Name = S_kraken
    /\ ctor = "NewMockExchange"
    /\ Len(orders) = 1
    /\ orders[1].On = "mock"
    /\ result = ErrNil

\* C18: with dryRun false, every exchange name that lower-cases to "binance"
\* or "okx" (for which ToUnified populates the Binance or OKX record) is
\* dispatched by NewExchange to the matching constructor and is not reported
\* as an unsupported exchange.
C18_FactoryRecognisesUnifierNames ==
    (NewExchangeReturned /\ ~Instr.Flags.DryRun)
    => /\ unified.Binance # <<>>
            => ctor = "NewBinanceExchange" /\ exchangeErr # ErrUnsupportedExchange
       /\ unified.OKX # <<>>
            => ctor = "NewOKXExchange" /\ exchangeErr # ErrUnsupportedExchange

OneHyphen(symbol) == Cardinality(Hyphens(symbol)) = 1

AfterHyphen(symbol) ==
    SubSeq(symbol, (CHOOSE i \in Hyphens(symbol) : TRUE) + 1, Len(symbol))

\* C19: extractQuoteCurrency returns the part after the hyphen of a symbol
\* with exactly one hyphen, fails for two or more hyphens, returns q for the
\* hyphen-free symbol "BTC" + q for each of the seven listed quote currencies
\* q, and fails for a hyphen-free symbol that ends in none of them.
C19_QuoteCurrency ==
    BalanceCheckReturned
    => LET symbol == Instr.Strategy.Symbol
       IN  /\ OneHyphen(symbol)
                => balanceErr = ErrNil /\ queried = <<AfterHyphen(symbol)>>
           /\ Cardinality(Hyphens(symbol)) >= 2
                => balanceErr = ErrExtractQuoteCurrency /\ queried = <<>>
           /\ \A i \in DOMAIN commonQuotes :
                symbol = Q_BTC \o commonQuotes[i]
                    => balanceErr = ErrNil /\ queried = <<commonQuotes[i]>>
           /\ (/\ Hyphens(symbol) = {}
               /\ \A i \in DOMAIN commonQuotes : ~HasSuffix(symbol, commonQuotes[i]))
                => balanceErr = ErrExtractQuoteCurrency /\ queried = <<>>

====
